---- MODULE Spec2Model ----
(***************************************************************************)
(* State-machine model of the point_cloud_viewer query and split engines:  *)
(*   - NodeIdsIterator and FilteredPointsIterator (octree_iterator.rs)     *)
(*   - PointStream / BatchIterator (batch_iterator.rs)                     *)
(*   - S2Splitter (read_write/s2.rs)                                       *)
(*   - xray_from_points and build_parent (xray/src/generation.rs)          *)
(*   - several iterations over one shared octree (points_web_viewer.rs)    *)
(* Each component has its own variables, initial condition and actions;    *)
(* a specification runs one component and keeps the others idle.           *)
(***************************************************************************)
EXTENDS Integers, Sequences, FiniteSets, TLC

VARIABLES
    \* ---- octree index and NodeIdsIterator ----
    nodes,          \* Octree.nodes: the set of keys of the node index
    node_ids,       \* NodeIdsIterator.node_ids: VecDeque<NodeId>
    returned,       \* history: the ids next() has returned, in order
    filter_calls,   \* history: <<id, answer>> of every filter_func call
    ni_last,        \* what the last next() returned: an id or None
    \* ---- FilteredPointsIterator over one node ----
    node_points,    \* the points of the node, in file order (the reader's content)
    culling,        \* FilteredPointsIterator.culling: the positions it contains
    node_iterator,  \* FilteredPointsIterator.node_iterator: points read so far
    fp_emitted,     \* history: the points next() has returned, in order
    fp_last,        \* what the last next() returned: a point or None
    contains_calls, \* history: the number of culling.contains calls made
    \* ---- opening the data of one node ----
    provider,       \* what the DataProvider and the reader answer for the node
    open_result,    \* outcome of FilteredPointsIterator::new
    read_result,    \* history: what NodeIterator::from_data_provider returned
    \* ---- BatchIterator and its PointStream ----
    octree_points,  \* the points of the octree, in traversal order (global frame)
    location_culling, \* PointLocation.culling, as the caller gave it
    bi_culling,     \* BatchIterator.culling
    bi_stream,      \* the points the region iterator of the octree produces
    batch_size,     \* BatchIterator.batch_size
    local_from_global, \* BatchIterator.local_from_global
    bi_pulled,      \* points pulled from the region iterator so far
    position,       \* PointStream.position
    color,          \* PointStream.color
    intensity,      \* PointStream.intensity
    capacity,       \* PointStream.position.capacity()
    cb_calls,       \* history: every PointData handed to func, with the pull count
    cb_results,     \* history: what func returned for each call
    bi_result,      \* "new", "running", or what try_for_each_batch returned
    \* ---- GrpcOctree::get_points_in_box ----
    replies,        \* the reply stream of the server: replies and transport errors
    consumed,       \* items of the stream for_each has taken
    grpc_points,    \* the Vec `points` of get_points_in_box
    func_calls,     \* history: the points handed to func and what it answered
    interrupted,    \* the flag `interrupted`
    grpc_result,    \* "new", "running", or what get_points_in_box returned
    \* ---- S2Splitter and the files its writers write ----
    open_mode,      \* S2Splitter.open_mode
    writers,        \* S2Splitter.writers: the LRU, least recently used first
    already_opened_writers, \* S2Splitter.already_opened_writers
    files,          \* the stored data of each cell that has a file
    constructed,    \* history: <<cell, open mode>> of every W::new
    session,        \* history: the points of the write calls that returned Ok
    batch_info,     \* what the batch of the last write call held
    points_batch,   \* the batch the last write call split by cell (empty: rejected)
    issued,         \* history: the writes the last write call made to writers
    peak_open,      \* history: the most writers the LRU held after any writer()
    s2_op,          \* the last operation: "new", "write" or "drop"
    s2_result,      \* what the last write returned
    writer_failed,  \* history: some write of an underlying writer failed
    supplied,       \* points handed to write so far in batches it took up
    \* ---- xray_from_points ----
    xr_points,      \* the points octree.points_in_box(bbox) yields, in order
    coloring_strategy, \* the ColoringStrategy: its kind and what it accumulated
    seen_any_points, \* the flag `seen_any_points`
    xr_processed,   \* points the for_each closure has taken
    save_result,    \* what image.save(png_file) answers when it is called
    png_file,       \* the image stored under png_file, None while there is none
    xray_result,    \* "new", "running", or what xray_from_points returned
    \* ---- build_parent ----
    children,       \* the slice `children`: Option<RgbImage> per child
    parent_result,  \* "new", or what build_parent returned
    \* ---- iterations of several handlers over the shared octree ----
    sh_filter,      \* per iteration: the node ids its filter_func accepts
    sh_node_ids,    \* per iteration: NodeIdsIterator.node_ids
    sh_returned,    \* per iteration, history: the ids next() has returned
    sh_last         \* per iteration: what its last next() returned

niVars == <<nodes, node_ids, returned, filter_calls, ni_last>>

fpVars == <<node_points, culling, node_iterator, fp_emitted, fp_last, contains_calls>>

biVars == <<octree_points, location_culling, bi_culling, bi_stream, batch_size, local_from_global, bi_pulled, position, color,
            intensity, capacity, cb_calls, cb_results, bi_result>>

s2Vars == <<open_mode, writers, already_opened_writers, files, constructed, session,
            batch_info, points_batch, issued, peak_open, s2_op, s2_result, writer_failed,
            supplied>>

openVars == <<provider, open_result, read_result>>

grpcVars == <<replies, consumed, grpc_points, func_calls, interrupted, grpc_result>>

xrayVars == <<xr_points, coloring_strategy, seen_any_points, xr_processed, save_result,
              png_file, xray_result>>

parentVars == <<children, parent_result>>

sharedVars == <<sh_filter, sh_node_ids, sh_returned, sh_last>>

vars == <<niVars, fpVars, openVars, biVars, grpcVars, s2Vars, xrayVars, parentVars, sharedVars>>

\* Option<T>
None == <<"None">>

Some(x) == <<"Some", x>>

NotCalled == <<"new">>

\* ------------------------------------------------------------------------
\* Bounds of the model
\* ------------------------------------------------------------------------
\* deepest level of a node of the index
MaxLevel == 2

\* child indices under which the enumerated indexes hold nodes of a level:
\* the first and the last octant on the two levels below the root, the last
\* octant alone further down; the iterator itself always probes all eight
IndexedChildren(level) == IF level <= 2 THEN {0, 7} ELSE {7}

\* ------------------------------------------------------------------------
\* NodeId: (level, index within level)
\* ------------------------------------------------------------------------
NumChildren == 8

from_level_index(level, index) == <<level, index>>

Root == from_level_index(0, 0)

get_child_id(id, child_index) == from_level_index(id[1] + 1, id[2] * NumChildren + child_index)

parent_id(id) == from_level_index(id[1] - 1, id[2] \div NumChildren)

RECURSIVE IdsAtLevel(_)
IdsAtLevel(l) ==
    IF l = 0 THEN {Root}
    ELSE {get_child_id(p, c) : p \in IdsAtLevel(l - 1), c \in IndexedChildren(l)}

Universe == UNION {IdsAtLevel(l) : l \in 0..MaxLevel}

RECURSIVE IsProperDescendant(_, _)
\* d lies strictly below a in the tree
IsProperDescendant(d, a) ==
    /\ d[1] > a[1]
    /\ \/ parent_id(d) = a
       \/ IsProperDescendant(parent_id(d), a)

\* ------------------------------------------------------------------------
\* NodeIdsIterator
\* ------------------------------------------------------------------------
RECURSIVE ExistingChildrenFrom(_, _, _)
\* the loop `for child_index in 0..8`: the children present in the index,
\* in child-index order, from child_index on
ExistingChildrenFrom(current, child_index, last_index) ==
    IF child_index > last_index THEN <<>>
    ELSE LET child_id == get_child_id(current, child_index)
         IN  (IF child_id \in nodes THEN <<child_id>> ELSE <<>>)
             \o ExistingChildrenFrom(current, child_index + 1, last_index)

ExistingChildrenShort(current) == ExistingChildrenFrom(current, 0, NumChildren - 2)

ExistingChildren(current) == ExistingChildrenFrom(current, 0, NumChildren - 1)

AfterFilterAlways(rest, current, accepted) == rest \o ExistingChildren(current)

AfterFilterFrontKept(rest, current, accepted) ==
    IF accepted THEN (<<current>> \o rest) \o ExistingChildren(current) ELSE rest

AfterFilterPushFront(rest, current, accepted) ==
    IF accepted THEN ExistingChildren(current) \o rest ELSE rest

\* the body of `if (self.filter_func)(..)`: the queue after `current` was
\* popped and the filter answered
AfterFilter(rest, current, accepted) ==
    IF accepted THEN rest \o ExistingChildren(current) ELSE rest

RECURSIVE RunNext(_, _)
\* the while loop of next(), for a filter that rejects the next n popped nodes
\* and accepts the one after them
RunNext(q, n) ==
    IF q = <<>> THEN [queue |-> <<>>, ret |-> None, calls |-> <<>>]
    ELSE LET current == Head(q)
         IN  IF n = 0
             THEN [queue |-> AfterFilter(Tail(q), current, TRUE),
                   ret   |-> Some(current),
                   calls |-> << <<current, TRUE>> >>]
             ELSE LET r == RunNext(AfterFilter(Tail(q), current, FALSE), n - 1)
                  IN  [r EXCEPT !.calls = << <<current, FALSE>> >> \o @]

NodeIdsInit ==
    /\ nodes \in SUBSET Universe
    /\ node_ids = <<Root>>
    /\ returned = <<>>
    /\ filter_calls = <<>>
    /\ ni_last = NotCalled

NodeIdsIdle ==
    /\ nodes = {}
    /\ node_ids = <<>>
    /\ returned = <<>>
    /\ filter_calls = <<>>
    /\ ni_last = NotCalled

NodeIdsIterator_next ==
    /\ \E n \in 0..Len(node_ids) :
        LET r == RunNext(node_ids, n)
        IN  /\ node_ids' = r.queue
            /\ ni_last' = r.ret
            /\ returned' = IF r.ret = None THEN returned ELSE Append(returned, r.ret[2])
            /\ filter_calls' = filter_calls \o r.calls
            /\ UNCHANGED nodes
    /\ UNCHANGED <<fpVars, openVars, biVars, grpcVars, s2Vars, xrayVars, parentVars, sharedVars>>

\* ------------------------------------------------------------------------
\* Points
\* ------------------------------------------------------------------------
Positions == {1, 2}

Colors == {"red", "blue"}

Intensities == {7}

Point == [position : Positions, color : Colors,
          intensity : {Some(i) : i \in Intensities} \cup {None}]

\* sequences over S of length at most n
SeqsUpTo(S, n) == UNION {[1..k -> S] : k \in 0..n}

\* ------------------------------------------------------------------------
\* FilteredPointsIterator
\* ------------------------------------------------------------------------
\* points stored in one node
MaxNodePoints == 3

contains(c, pos) == pos \in c

FindStopAtReject(points, read, c) ==
    IF read >= Len(points) THEN [read |-> Len(points), item |-> None]
    ELSE IF contains(c, points[read + 1].position)
         THEN [read |-> read + 1, item |-> Some(points[read + 1])]
         ELSE [read |-> read + 1, item |-> None]

RECURSIVE Find(_, _, _)
\* Iterator::find on the node reader: read on until a point passes the
\* predicate; `read` points have been read before the call
Find(points, read, c) ==
    IF read >= Len(points) THEN [read |-> Len(points), item |-> None]
    ELSE IF contains(c, points[read + 1].position)
         THEN [read |-> read + 1, item |-> Some(points[read + 1])]
         ELSE Find(points, read + 1, c)

FilteredInit ==
    /\ node_points \in SeqsUpTo(Point, MaxNodePoints)
    /\ culling \in SUBSET Positions
    /\ node_iterator = 0
    /\ fp_emitted = <<>>
    /\ fp_last = NotCalled
    /\ contains_calls = 0

FilteredIdle ==
    /\ node_points = <<>>
    /\ culling = {}
    /\ node_iterator = 0
    /\ fp_emitted = <<>>
    /\ fp_last = NotCalled
    /\ contains_calls = 0

FilteredPointsIterator_next ==
    /\ LET r == Find(node_points, node_iterator, culling)
       IN  /\ node_iterator' = r.read
           /\ fp_last' = r.item
           /\ fp_emitted' = IF r.item = None THEN fp_emitted
                            ELSE Append(fp_emitted, r.item[2])
           \* the closure of find calls culling.contains on every point read
           /\ contains_calls' = contains_calls + (r.read - node_iterator)
    /\ UNCHANGED <<node_points, culling>>
    /\ UNCHANGED <<niVars, openVars, biVars, grpcVars, s2Vars, xrayVars, parentVars, sharedVars>>

\* ------------------------------------------------------------------------
\* NodeIterator::from_data_provider and get_node_iterator
\* ------------------------------------------------------------------------
\* Result<T>
OkOf(x) == <<"Ok", x>>

Err(e) == <<"Err", e>>

\* what DataProvider::data may answer for the requested keys: an error, or
\* readers for any subset of the keys
DataResults(keys) == {Err("provider")} \cup {OkOf(k) : k \in SUBSET keys}

\* the node as the provider sees it
Providers ==
    [num_points     : 0..MaxNodePoints,
     position_color : DataResults({"position", "color"}),
     intensity      : DataResults({"intensity"}),
     reader         : {OkOf({}), Err("reader")}]

from_data_provider_intensity_required(p) ==
    IF p.num_points = 0 THEN OkOf({})
    ELSE IF p.position_color[1] = "Err" THEN p.position_color
    ELSE IF "position" \notin p.position_color[2] THEN Err("No position reader available.")
    ELSE IF "color" \notin p.position_color[2] THEN Err("No color reader available.")
    ELSE IF p.intensity[1] = "Err" THEN p.intensity
    ELSE IF "intensity" \notin p.intensity[2] THEN Err("No intensity reader available.")
    ELSE IF p.reader[1] = "Err" THEN p.reader
    ELSE OkOf({"color", "intensity"})

\* NodeIterator::from_data_provider: Ok with the attributes of the reader, or
\* the first error
from_data_provider(p) ==
    IF p.num_points = 0 THEN OkOf({})
    ELSE IF p.position_color[1] = "Err" THEN p.position_color
    ELSE IF "position" \notin p.position_color[2] THEN Err("No position reader available.")
    ELSE IF "color" \notin p.position_color[2] THEN Err("No color reader available.")
    ELSE IF p.intensity[1] = "Ok" /\ "intensity" \notin p.intensity[2]
         THEN Err("No intensity reader available.")
    ELSE IF p.reader[1] = "Err" THEN p.reader
    ELSE OkOf({"color"} \cup (IF p.intensity[1] = "Ok" THEN {"intensity"} ELSE {}))

Panic(msg) == <<"panic", msg>>

\* get_node_iterator: Result::expect on what from_data_provider returned
get_node_iterator(p) ==
    LET r == from_data_provider(p)
    IN  IF r[1] = "Ok" THEN r ELSE Panic("Could not read node points")

OpenInit ==
    /\ provider \in Providers
    /\ open_result = NotCalled
    /\ read_result = NotCalled

OpenIdle ==
    /\ provider = [num_points |-> 0, position_color |-> OkOf({}),
                   intensity |-> OkOf({}), reader |-> OkOf({})]
    /\ open_result = NotCalled
    /\ read_result = NotCalled

FilteredPointsIterator_new ==
    /\ open_result = NotCalled
    /\ open_result' = get_node_iterator(provider)
    /\ read_result' = from_data_provider(provider)
    /\ UNCHANGED provider
    /\ UNCHANGED <<niVars, fpVars, biVars, grpcVars, s2Vars, xrayVars, parentVars, sharedVars>>

\* ------------------------------------------------------------------------
\* BatchIterator / PointStream
\* ------------------------------------------------------------------------
\* longest stream of points the region iterator produces
MaxStream == 3

\* largest batch_size passed to BatchIterator::new
MaxBatchSize == 3

\* Isometry3 reduced to one axis: x |-> rot * x + disp with rot in {1, -1}
GlobalFromLocals == {None, Some([rot |-> -1, disp |-> 3])}

Inverse(t) == [rot |-> t.rot, disp |-> (0 - t.rot) * t.disp]

Transform(t, x) == t.rot * x + t.disp

\* the product of two isometries: first u, then t
Compose(t, u) == [rot |-> t.rot * u.rot, disp |-> t.rot * u.disp + t.disp]

\* ---- PointCulling, on one axis ----
AnyCulling == <<"Any">>

\* Aabb3 [min, max]
Aabb(min, max) == <<"Aabb", [min |-> min, max |-> max]>>

\* Obb and OrientedBeam: a pose (the isometry from the box to the query
\* frame) and a half extent
Obb(query_from_obb, half_extent) ==
    <<"Obb", [query_from_obb |-> query_from_obb, half_extent |-> half_extent]>>

OrientedBeam(query_from_beam, half_extent) ==
    <<"OrientedBeam", [query_from_beam |-> query_from_beam, half_extent |-> half_extent]>>

\* Matrix4 reduced to the affine map x |-> a * x + b; a Frustum is the
\* projection matrix that takes a point to clip coordinates
Matrix(a, b) == [a |-> a, b |-> b]

Frustum(m) == <<"Frustum", m>>

\* Matrix4::from(Decomposed { scale: 1.0, rot, disp })
MatrixFromDecomposed(t) == Matrix(t.rot, t.disp)

\* Matrix4 * Matrix4: first n, then m
MatrixMul(m, n) == Matrix(m.a * n.a, m.a * n.b + m.b)

Abs(x) == IF x < 0 THEN 0 - x ELSE x

\* Obb::from(Aabb3): centered on the box, axes of the frame; the boxes of the
\* model have an integer center
ObbFromAabb(aabb) ==
    Obb([rot |-> 1, disp |-> (aabb.min + aabb.max) \div 2], (aabb.max - aabb.min) \div 2)

\* Obb::transform and OrientedBeam::transform: the pose moves with the frame
ObbTransform(obb, t) == Obb(Compose(t, obb.query_from_obb), obb.half_extent)

BeamTransform(beam, t) == OrientedBeam(Compose(t, beam.query_from_beam), beam.half_extent)

\* the predicate of a culling: does the position lie inside
CullingContains(c, x) ==
    CASE c[1] = "Any" -> TRUE
      [] c[1] = "Aabb" -> c[2].min <= x /\ x <= c[2].max
      [] c[1] = "Obb" ->
            Abs(Transform(Inverse(c[2].query_from_obb), x)) <= c[2].half_extent
      [] c[1] = "OrientedBeam" ->
            Abs(Transform(Inverse(c[2].query_from_beam), x)) <= c[2].half_extent
      [] c[1] = "Frustum" -> Abs(c[2].a * x + c[2].b) <= 1

\* all_points, points_in_box, points_in_obb, points_in_frustum and
\* points_in_oriented_beam: the points of the octree the culling contains
RegionPoints(c, points) == SelectSeq(points, LAMBDA p : CullingContains(c, p.position))

\* what func may return: Ok, or one of two errors
CallbackErrors == {"Cancelled", "Io"}

Ok == "Ok"

\* Vec::with_capacity(n): room for exactly n elements
with_capacity(n) == n

\* capacities push may reallocate a full Vec of `len` elements to: the
\* amortized growth is at least len + 1, and 4 for a small Vec on toolchains
\* that round the first allocation up
GrownCapacities(len) == {len + 1, IF len + 1 < 4 THEN 4 ELSE len + 1}

BatchIterator_new(global_from_local) ==
    IF global_from_local = None THEN None ELSE Some(Inverse(global_from_local[2]))

\* BatchIterator::new: the culling of the iterator, in the global frame
BatchIterator_culling(c, global_from_local) ==
    IF global_from_local = None THEN c
    ELSE LET t == global_from_local[2]
         IN  CASE c[1] = "Any" -> AnyCulling
               [] c[1] = "Aabb" -> ObbTransform(ObbFromAabb(c[2])[2], t)
               [] c[1] = "Obb" -> ObbTransform(c[2], t)
               [] c[1] = "Frustum" -> Frustum(MatrixMul(MatrixFromDecomposed(t), c[2]))
               [] c[1] = "OrientedBeam" -> BeamTransform(c[2], t)

\* an octree of arbitrary points queried with PointCulling::Any
BatchInit ==
    /\ octree_points \in SeqsUpTo(Point, MaxStream)
    /\ location_culling = AnyCulling
    /\ batch_size \in 0..MaxBatchSize
    /\ \E g \in GlobalFromLocals :
          /\ bi_culling = BatchIterator_culling(location_culling, g)
          /\ local_from_global = BatchIterator_new(g)
    /\ bi_stream = <<>>
    /\ bi_pulled = 0
    /\ position = <<>>
    /\ color = <<>>
    /\ intensity = <<>>
    /\ capacity = 0
    /\ cb_calls = <<>>
    /\ cb_results = <<>>
    /\ bi_result = "new"

\* the positions of the octree of the region queries: one point on each
LinePositions == 0..5

LinePoints ==
    [i \in 1..Cardinality(LinePositions) |->
        [position |-> i - 1, color |-> "red", intensity |-> None]]

\* regions the caller gives: each kind, covering the positions 0..2 of the
\* frame it is given in, and a box pose that is turned around
LocationCullings ==
    {Aabb(0, 2),
     Obb([rot |-> 1, disp |-> 1], 1),
     Obb([rot |-> -1, disp |-> 1], 1),
     Frustum(Matrix(1, -1)),
     OrientedBeam([rot |-> 1, disp |-> 1], 1)}

\* an octree with a point on each position of the line, queried with a region
LocationInit ==
    /\ octree_points = LinePoints
    /\ location_culling \in LocationCullings
    /\ batch_size \in 0..MaxBatchSize
    /\ \E g \in GlobalFromLocals :
          /\ bi_culling = BatchIterator_culling(location_culling, g)
          /\ local_from_global = BatchIterator_new(g)
    /\ bi_stream = <<>>
    /\ bi_pulled = 0
    /\ position = <<>>
    /\ color = <<>>
    /\ intensity = <<>>
    /\ capacity = 0
    /\ cb_calls = <<>>
    /\ cb_results = <<>>
    /\ bi_result = "new"

BatchIdle ==
    /\ octree_points = <<>>
    /\ location_culling = AnyCulling
    /\ bi_culling = AnyCulling
    /\ bi_stream = <<>>
    /\ batch_size = 0
    /\ local_from_global = None
    /\ bi_pulled = 0
    /\ position = <<>>
    /\ color = <<>>
    /\ intensity = <<>>
    /\ capacity = 0
    /\ cb_calls = <<>>
    /\ cb_results = <<>>
    /\ bi_result = "idle"

\* PointStream::push_point: the three columns after the push
push_point(point) ==
    [position  |-> Append(position,
                          IF local_from_global = None THEN point.position
                          ELSE Transform(local_from_global[2], point.position)),
     color     |-> Append(color, point.color),
     intensity |-> IF point.intensity # None THEN Append(intensity, point.intensity[2])
                   ELSE intensity]

\* the layers of the PointData PointStream::callback builds from the columns
Layers(cols) ==
    IF cols.intensity # <<>>
    THEN [color |-> cols.color, intensity |-> cols.intensity]
    ELSE [color |-> cols.color]

PointDataSplitOffOne(cols) ==
    [position |-> Tail(cols.position), layers |-> Layers(cols)]

\* the PointData of split_off(0): the whole columns
PointData(cols) == [position |-> cols.position, layers |-> Layers(cols)]

StatusIgnoringError(r) == "running"

\* try_for_each and `?`: an error from the closure ends the iteration
StatusAfter(r) == IF r = Ok THEN "running" ELSE r

callbackAlwaysInvoking(cols, pulled, r, status) ==
    /\ position' = <<>>
    /\ color' = <<>>
    /\ intensity' = <<>>
    /\ cb_calls' = Append(cb_calls, [data |-> PointData(cols), pulled |-> pulled])
    /\ cb_results' = Append(cb_results, r)
    /\ bi_result' = status

\* PointStream::callback on the columns `cols`, func answering r; `pulled` is
\* the pull count at the call, `status` what the caller makes of the answer
callback(cols, pulled, r, status) ==
    IF cols.position = <<>>
    THEN /\ r = Ok
         /\ position' = cols.position
         /\ color' = cols.color
         /\ intensity' = cols.intensity
         /\ UNCHANGED <<cb_calls, cb_results>>
         /\ bi_result' = status
    ELSE /\ position' = <<>>
         /\ color' = <<>>
         /\ intensity' = <<>>
         /\ cb_calls' = Append(cb_calls, [data |-> PointData(cols), pulled |-> pulled])
         /\ cb_results' = Append(cb_results, r)
         /\ bi_result' = status

\* try_for_each_batch up to the iteration: PointStream::new and the region
\* iterator of the octree for the culling
try_for_each_batch_begin ==
    /\ bi_result = "new"
    /\ capacity' = with_capacity(batch_size)
    /\ bi_stream' = RegionPoints(bi_culling, octree_points)
    /\ bi_result' = "running"
    /\ UNCHANGED <<octree_points, location_culling, bi_culling, batch_size,
                   local_from_global, bi_pulled, position, color, intensity,
                   cb_calls, cb_results>>
    /\ UNCHANGED <<niVars, fpVars, openVars, grpcVars, s2Vars, xrayVars, parentVars, sharedVars>>

\* one turn of iterator.try_for_each: pull a point, push_point_and_callback
push_point_and_callback ==
    /\ bi_result = "running"
    /\ bi_pulled < Len(bi_stream)
    /\ bi_pulled' = bi_pulled + 1
    /\ LET cols == push_point(bi_stream[bi_pulled + 1])
       IN  /\ \E c \in (IF Len(position) = capacity
                        THEN GrownCapacities(Len(position)) ELSE {capacity}) :
                 /\ capacity' = c
                 /\ IF Len(cols.position) = c
                    THEN \E r \in {Ok} \cup CallbackErrors :
                            callback(cols, bi_pulled + 1, r, StatusAfter(r))
                    ELSE /\ position' = cols.position
                         /\ color' = cols.color
                         /\ intensity' = cols.intensity
                         /\ UNCHANGED <<cb_calls, cb_results, bi_result>>
    /\ UNCHANGED <<octree_points, location_culling, bi_culling, bi_stream, batch_size,
                   local_from_global>>
    /\ UNCHANGED <<niVars, fpVars, openVars, grpcVars, s2Vars, xrayVars, parentVars, sharedVars>>

\* the region iterator is exhausted: the closing point_stream.callback()
try_for_each_batch_end ==
    /\ bi_result = "running"
    /\ bi_pulled = Len(bi_stream)
    /\ \E r \in {Ok} \cup CallbackErrors :
          callback([position |-> position, color |-> color, intensity |-> intensity],
                   bi_pulled, r, r)
    /\ UNCHANGED <<octree_points, location_culling, bi_culling, bi_stream, batch_size,
                   local_from_global, bi_pulled, capacity>>
    /\ UNCHANGED <<niVars, fpVars, openVars, grpcVars, s2Vars, xrayVars, parentVars, sharedVars>>

\* ------------------------------------------------------------------------
\* GrpcOctree::get_points_in_box
\* ------------------------------------------------------------------------
\* longest reply stream
MaxReplies == 2

\* a reply of the server: the columns of some points
Replies ==
    [positions   : {<<>>, <<1>>, <<1, 2>>},
     colors      : {<<"red">>, <<"red", "blue">>},
     intensities : {<<>>, <<7>>}]

\* an item of the reply stream: a reply, or a failure of the transport
ReplyItems == {OkOf(r) : r \in Replies} \cup {Err("transport")}

Min(a, b) == IF a < b THEN a ELSE b

\* the points the closure pushes for a reply: positions zipped with colors,
\* with the intensities when there is one per position
PointsOf(reply) ==
    LET n == Min(Len(reply.positions), Len(reply.colors))
        with == Len(reply.intensities) = Len(reply.positions)
    IN  [j \in 1..n |->
            [position  |-> reply.positions[j],
             color     |-> reply.colors[j],
             intensity |-> IF with /\ j <= Len(reply.intensities)
                           THEN Some(reply.intensities[j]) ELSE None]]

ClosureResultAlwaysOk(answer) == OkOf("unit")

\* what the closure of for_each returns after func answered
ClosureResult(answer) == IF answer THEN OkOf("unit") ELSE Err("QueueShutdown")

\* .map_err(|_| ErrorKind::Grpc)
MapErrGrpc(r) == IF r[1] = "Err" THEN Err("Grpc") ELSE r

\* what get_points_in_box returns for the result of the for_each
Returned(result, was_interrupted) ==
    IF MapErrGrpc(result)[1] = "Err" /\ ~ was_interrupted
    THEN MapErrGrpc(result) ELSE OkOf("unit")

GrpcInit ==
    /\ replies \in SeqsUpTo(ReplyItems, MaxReplies)
    /\ consumed = 0
    /\ grpc_points = <<>>
    /\ func_calls = <<>>
    /\ interrupted = FALSE
    /\ grpc_result = NotCalled

GrpcIdle ==
    /\ replies = <<>>
    /\ consumed = 0
    /\ grpc_points = <<>>
    /\ func_calls = <<>>
    /\ interrupted = FALSE
    /\ grpc_result = <<"idle">>

\* get_points_in_box up to the for_each: the request is sent, or fails
get_points_in_box_begin ==
    /\ grpc_result = NotCalled
    /\ \E request \in {OkOf("replies"), Err("call")} :
          grpc_result' = IF request[1] = "Err" THEN MapErrGrpc(request) ELSE <<"running">>
    /\ UNCHANGED <<replies, consumed, grpc_points, func_calls, interrupted>>
    /\ UNCHANGED <<niVars, fpVars, openVars, biVars, s2Vars, xrayVars, parentVars, sharedVars>>

\* for_each takes the next item of the stream: a failure ends it, a reply
\* goes to the closure, whose error ends it as well
for_each_reply ==
    /\ grpc_result = <<"running">>
    /\ consumed < Len(replies)
    /\ consumed' = consumed + 1
    /\ LET item == replies[consumed + 1]
       IN  IF item[1] = "Err"
           THEN /\ grpc_result' = Returned(item, interrupted)
                /\ UNCHANGED <<grpc_points, func_calls, interrupted>>
           ELSE LET pushed == grpc_points \o PointsOf(item[2])
                IN  \E answer \in BOOLEAN :
                       LET r == ClosureResult(answer)
                       IN  /\ func_calls' = Append(func_calls,
                                                   [points |-> pushed, answer |-> answer])
                           /\ interrupted' = (interrupted \/ ~ answer)
                           /\ grpc_points' = IF answer THEN <<>> ELSE pushed
                           /\ grpc_result' = IF r[1] = "Err"
                                             THEN Returned(r, interrupted')
                                             ELSE <<"running">>
    /\ UNCHANGED replies
    /\ UNCHANGED <<niVars, fpVars, openVars, biVars, s2Vars, xrayVars, parentVars, sharedVars>>

\* the stream has ended: the for_each resolves to Ok
for_each_end ==
    /\ grpc_result = <<"running">>
    /\ consumed = Len(replies)
    /\ grpc_result' = Returned(OkOf("unit"), interrupted)
    /\ UNCHANGED <<replies, consumed, grpc_points, func_calls, interrupted>>
    /\ UNCHANGED <<niVars, fpVars, openVars, biVars, s2Vars, xrayVars, parentVars, sharedVars>>

\* ------------------------------------------------------------------------
\* S2Splitter
\* ------------------------------------------------------------------------
\* capacity of the writer LRU.  s2.rs sets 25; the splitter is checked at a
\* reduced capacity, with more cells than the LRU holds
MAX_NUM_NODE_WRITERS == 1

\* level-20 cells the written points fall into
NumCells == 2

\* points handed to the splitter in one session
MaxSessionPoints == 3

EARTH_RADIUS_MIN_M == 6352800

EARTH_RADIUS_MAX_M == 6384400

Cells == 1..NumCells

Truncate == "Truncate"

Append_ == "Append"

\* f64: a number or NaN; every comparison with NaN is false
Num(x) == <<"num", x>>

NaN == <<"NaN">>

Gt(a, b) == a[1] = "num" /\ b[1] = "num" /\ a[2] > b[2]

Lt(a, b) == a[1] = "num" /\ b[1] = "num" /\ a[2] < b[2]

\* A position is given by what write computes from it: its magnitude and the
\* level-20 cell of its direction
S2Position(cell, radius) == [cell |-> cell, radius |-> radius]

\* the positions of the LRU sessions: one inside the band per cell, and
\* the origin
SplitPositions ==
    {S2Position(c, Num(EARTH_RADIUS_MIN_M)) : c \in Cells} \cup {S2Position(1, Num(0))}

\* the positions of the band sessions: on and next to both bounds, and NaN
BandPositions ==
    {S2Position(1, r) : r \in {Num(EARTH_RADIUS_MIN_M - 1), Num(EARTH_RADIUS_MIN_M),
                               Num(EARTH_RADIUS_MAX_M), Num(EARTH_RADIUS_MAX_M + 1),
                               NaN}}

AttributeKeys == {"intensity"}

\* the batch of the given positions; the attribute value of a point is its
\* serial number in the session
MakeBatch(ps, first) ==
    [position   |-> ps,
     attributes |-> [k \in AttributeKeys |-> [i \in 1..Len(ps) |-> first + i]]]

EmptyBatch == [position |-> <<>>, attributes |-> <<>>]

\* strictly below the lower or strictly above the upper bound of the band
OutsideBand(r) ==
    r[1] = "num" /\ (r[2] < EARTH_RADIUS_MIN_M \/ r[2] > EARTH_RADIUS_MAX_M)

\* in the closed band
InBand(r) ==
    r[1] = "num" /\ r[2] >= EARTH_RADIUS_MIN_M /\ r[2] <= EARTH_RADIUS_MAX_M

\* what a batch of positions holds: a point outside the band, only points in
\* the band, a point in the band ahead of one outside
BatchInfo(ps) ==
    [outside |-> \E i \in 1..Len(ps) : OutsideBand(ps[i].radius),
     in_band |-> \A i \in 1..Len(ps) : InBand(ps[i].radius),
     mixed   |-> \E i, j \in 1..Len(ps) :
                    i < j /\ InBand(ps[i].radius) /\ OutsideBand(ps[j].radius),
     len     |-> Len(ps)]

RadiusRejectedUpperOnly(radius) == Gt(radius, Num(EARTH_RADIUS_MAX_M))

\* the radius check of write
RadiusRejected(radius) ==
    Gt(radius, Num(EARTH_RADIUS_MAX_M)) \/ Lt(radius, Num(EARTH_RADIUS_MIN_M))

PushPointReplacing(cell_batch, batch, i) ==
    [position   |-> Append(cell_batch.position, batch.position[i]),
     attributes |-> [k \in DOMAIN batch.attributes |-> <<batch.attributes[k][i]>>]]

\* s2_cell_batch after the pushes of point i of `batch`
PushPoint(cell_batch, batch, i) ==
    [position   |-> Append(cell_batch.position, batch.position[i]),
     attributes |-> [k \in DOMAIN batch.attributes |->
                        IF k \in DOMAIN cell_batch.attributes
                        THEN Append(cell_batch.attributes[k], batch.attributes[k][i])
                        ELSE <<batch.attributes[k][i]>>]]

\* the element of a set of one element
TheOne(S) == CHOOSE x \in S : TRUE

RECURSIVE GroupByCell(_, _, _)
\* the first loop of write from point i on; `by_cell` is batches_by_s2_cell
GroupByCell(batch, i, by_cell) ==
    IF i > Len(batch.position) THEN [err |-> FALSE, by_cell |-> by_cell]
    ELSE LET pos == batch.position[i]
         IN  IF RadiusRejected(pos.radius) THEN [err |-> TRUE, by_cell |-> by_cell]
             ELSE LET cell_batch == IF pos.cell \in DOMAIN by_cell THEN by_cell[pos.cell]
                                    ELSE EmptyBatch
                  IN  TheOne({GroupByCell(batch, i + 1,
                                          [c \in DOMAIN by_cell \cup {pos.cell} |->
                                              IF c = pos.cell THEN pushed ELSE by_cell[c]]) :
                                 pushed \in {PushPoint(cell_batch, batch, i)}})

\* ---- the underlying writer W and its file ----
ConcatBatch(a, b) ==
    [position   |-> a.position \o b.position,
     attributes |-> [k \in DOMAIN a.attributes \cup DOMAIN b.attributes |->
                        (IF k \in DOMAIN a.attributes THEN a.attributes[k] ELSE <<>>)
                        \o (IF k \in DOMAIN b.attributes THEN b.attributes[k] ELSE <<>>)]]

\* W::new: Truncate creates or overwrites the file, Append reopens or creates it
W_new(fs, cell, mode) ==
    IF mode = Truncate \/ cell \notin DOMAIN fs
    THEN [c \in DOMAIN fs \cup {cell} |-> IF c = cell THEN EmptyBatch ELSE fs[c]]
    ELSE fs

\* W::write: the batch goes to the writer's buffer
W_write(w, batch) == [w EXCEPT !.buf = ConcatBatch(@, batch)]

\* dropping W flushes its buffer to the end of its file
W_drop(fs, w) == [fs EXCEPT ![w.cell] = ConcatBatch(@, w.buf)]

\* ---- the LRU ----
LruContains(ws, cell) == \E i \in 1..Len(ws) : ws[i].cell = cell

LruIndex(ws, cell) == CHOOSE i \in 1..Len(ws) : ws[i].cell = cell

\* LruCache::get_mut: the entry becomes the most recently used
LruTouch(ws, cell) ==
    LET i == LruIndex(ws, cell)
    IN  SubSeq(ws, 1, i - 1) \o SubSeq(ws, i + 1, Len(ws)) \o <<ws[i]>>

LruNeverFull(ws) == FALSE

\* LruCache::put of a new key evicts the least recently used entry when the
\* cache holds as many entries as its capacity
LruFull(ws) == Len(ws) = MAX_NUM_NODE_WRITERS

OpenModeAlwaysConfigured(configured, already, cell) == configured

\* the open mode writer() constructs a missing writer with
OpenModeFor(configured, already, cell) ==
    IF configured = Append_ \/ cell \in already THEN Append_ ELSE Truncate

AlreadyOpenedNoInsert(configured, already, cell) == already

\* already_opened_writers after writer() constructed a missing writer
AlreadyOpenedAfter(configured, already, cell) ==
    IF configured = Append_ \/ cell \in already THEN already ELSE already \cup {cell}

\* S2Splitter::writer on the splitter state st: the state with the writer of
\* the cell in the LRU, most recently used
writer(st, cell) ==
    IF LruContains(st.writers, cell)
    THEN [st EXCEPT !.writers = LruTouch(@, cell)]
    ELSE LET mode == OpenModeFor(open_mode, st.already, cell)
             already == AlreadyOpenedAfter(open_mode, st.already, cell)
             opened == W_new(st.files, cell, mode)
             full == LruFull(st.writers)
             kept == IF full THEN Tail(st.writers) ELSE st.writers
             flushed == IF full THEN W_drop(opened, Head(st.writers)) ELSE opened
         IN  [writers     |-> Append(kept, [cell |-> cell, buf |-> EmptyBatch]),
              already     |-> already,
              files       |-> flushed,
              constructed |-> Append(st.constructed, <<cell, mode>>),
              failed      |-> st.failed,
              issued      |-> st.issued,
              peak        |-> st.peak]

\* `.write(batch)` on the writer writer() returned, the most recently used of
\* the state `got`; ok: the write succeeds
AfterWrite(got, batch, ok) ==
    LET n == Len(got.writers)
        call == [cell |-> got.writers[n].cell, batch |-> batch, ok |-> ok]
        noted == [got EXCEPT !.issued = Append(@, call),
                             !.peak = IF n > @ THEN n ELSE @]
    IN  IF ok THEN [noted EXCEPT !.writers[n] = W_write(@, batch)]
        ELSE [noted EXCEPT !.failed = TRUE]

RECURSIVE WriteGroupsPastError(_, _, _, _, _)
WriteGroupsPastError(st, by_cell, order, fail_at, i) ==
    IF i > Len(order) THEN st
    ELSE LET cell == order[i]
         IN  TheOne({WriteGroupsPastError(next, by_cell, order, fail_at, i + 1) :
                        next \in {AfterWrite(got, by_cell[cell], i # fail_at) :
                                     got \in {writer(st, cell)}}})

RECURSIVE WriteGroups(_, _, _, _, _)
\* the second loop of write: the groups in the order the map yields them,
\* from group i on; the write of group fail_at fails (0: none does)
WriteGroups(st, by_cell, order, fail_at, i) ==
    IF i > Len(order) THEN st
    ELSE LET cell == order[i]
         IN  TheOne({IF i = fail_at THEN next
                     ELSE WriteGroups(next, by_cell, order, fail_at, i + 1) :
                        next \in {AfterWrite(got, by_cell[cell], i # fail_at) :
                                     got \in {writer(st, cell)}}})

\* the orders a HashMap may yield the keys S in
Orders(S) ==
    {o \in [1..Cardinality(S) -> S] : \A i, j \in 1..Cardinality(S) : o[i] = o[j] => i = j}

S2Init ==
    /\ open_mode \in {Truncate, Append_}
    /\ writers = <<>>
    /\ already_opened_writers = {}
    \* files of an earlier session may exist; each holds one point
    /\ \E old \in {{}, Cells} :
          files = [c \in old |-> MakeBatch(<<S2Position(c, Num(EARTH_RADIUS_MAX_M))>>, 0 - 1)]
    /\ constructed = <<>>
    /\ session = <<>>
    /\ batch_info = BatchInfo(<<>>)
    /\ points_batch = MakeBatch(<<>>, 0)
    /\ issued = <<>>
    /\ peak_open = 0
    /\ s2_op = "new"
    /\ s2_result = Ok
    /\ writer_failed = FALSE
    /\ supplied = 0

S2Idle ==
    /\ open_mode = Truncate
    /\ writers = <<>>
    /\ already_opened_writers = {}
    /\ files = <<>>
    /\ constructed = <<>>
    /\ session = <<>>
    /\ batch_info = BatchInfo(<<>>)
    /\ points_batch = MakeBatch(<<>>, 0)
    /\ issued = <<>>
    /\ peak_open = 0
    /\ s2_op = "idle"
    /\ s2_result = Ok
    /\ writer_failed = FALSE
    /\ supplied = 0

\* S2Splitter::write of a batch of positions ps
S2Splitter_write(ps) ==
    /\ s2_op \in {"new", "write"}
    /\ \E batch \in {MakeBatch(ps, supplied)} :
       \E grouped \in {GroupByCell(batch, 1, <<>>)} :
           /\ batch_info' = BatchInfo(ps)
           /\ points_batch' = IF grouped.err THEN MakeBatch(<<>>, 0) ELSE batch
           /\ s2_op' = "write"
           /\ IF grouped.err
              THEN /\ s2_result' = "InvalidInput"
                   /\ issued' = <<>>
                   /\ UNCHANGED peak_open
                   /\ UNCHANGED <<writers, already_opened_writers, files, constructed,
                                  session, writer_failed, supplied>>
              ELSE \E order \in Orders(DOMAIN grouped.by_cell) :
                   \E fail_at \in 0..Len(order) :
                      \E st \in {WriteGroups(
                                    [writers |-> writers,
                                     already |-> already_opened_writers,
                                     files |-> files,
                                     constructed |-> constructed,
                                     failed |-> FALSE,
                                     issued |-> <<>>,
                                     peak |-> peak_open],
                                    grouped.by_cell, order, fail_at, 1)} :
                          /\ writers' = st.writers
                          /\ issued' = st.issued
                          /\ peak_open' = st.peak
                          /\ already_opened_writers' = st.already
                          /\ files' = st.files
                          /\ constructed' = st.constructed
                          /\ s2_result' = IF st.failed THEN "WriterError" ELSE Ok
                          /\ writer_failed' = (writer_failed \/ st.failed)
                          /\ session' = IF st.failed THEN session
                                        ELSE session \o [i \in 1..Len(ps) |->
                                                 [position |-> ps[i],
                                                  intensity |-> supplied + i]]
                          /\ supplied' = supplied + Len(ps)
    /\ UNCHANGED open_mode
    /\ UNCHANGED <<niVars, fpVars, openVars, biVars, grpcVars, xrayVars, parentVars, sharedVars>>

RECURSIVE DropAll(_, _)
DropAll(fs, ws) == IF ws = <<>> THEN fs ELSE DropAll(W_drop(fs, Head(ws)), Tail(ws))

\* the splitter goes out of scope: the LRU drops every writer it holds
S2Splitter_drop ==
    /\ s2_op \in {"new", "write"}
    /\ s2_op' = "drop"
    /\ files' = DropAll(files, writers)
    /\ writers' = <<>>
    /\ UNCHANGED <<open_mode, already_opened_writers, constructed, session, batch_info,
                   points_batch, issued, peak_open, s2_result, writer_failed, supplied>>
    /\ UNCHANGED <<niVars, fpVars, openVars, biVars, grpcVars, xrayVars, parentVars, sharedVars>>

\* ------------------------------------------------------------------------
\* X-Ray rasterizer: the coloring strategies and xray_from_points
\* ------------------------------------------------------------------------
NUM_Z_BUCKETS == 1024

\* most points points_in_box yields
MaxXrayPoints == 3

\* side of the rendered image, in pixels
ImageSide == 2

image_width == ImageSide

image_height == ImageSide

\* the box rendered; its extent is a power of two, so that the f32 quotients
\* of the discretization are exact
bbox == [min |-> <<0, 0, 0>>, max |-> <<2, 2, 2>>]

\* Aabb3::dim
dim(b) == [i \in 1..3 |-> b.max[i] - b.min[i]]

\* positions inside the box: two in one pixel with different z buckets, one
\* in another pixel on the face y = max.y, one on the face y = min.y, one in
\* the corner (max.x, min.y) of the box
XrayPositions == {<<0, 1, 0>>, <<0, 1, 1>>, <<1, 2, 0>>, <<1, 0, 0>>, <<2, 0, 1>>}

\* intensities: none, a negative one, and two f32 values two apart at 2^24
XrayIntensities == {None, Some(0 - 1), Some(16777216), Some(16777218)}

XrayPoint == [position : XrayPositions, intensity : XrayIntensities]

\* ---- f32 on the integers from 2^24 on, where every f32 is an integer ----
RECURSIVE Ulp(_)
\* the distance between neighbouring f32 values at n: 24 bits of mantissa
Ulp(n) == IF n < 16777216 THEN 1 ELSE 2 * Ulp(n \div 2)

\* num / den rounded to the nearest f32, ties to the even mantissa
F32Div(num, den) ==
    LET u == Ulp(num \div den)
        lo == (num \div (den * u)) * u
        r == num - lo * den
    IN  IF 2 * r < den * u THEN lo
        ELSE IF 2 * r > den * u THEN lo + u
        ELSE IF (lo \div u) % 2 = 0 THEN lo ELSE lo + u

\* a + b in f32
F32Add(a, b) == F32Div(a + b, 1)

\* f32::max and f32::min
F32Max(a, b) == IF a > b THEN a ELSE b

F32Min(a, b) == IF a < b THEN a ELSE b

\* ---- Color<u8> as <<red, green, blue, alpha>> ----
WHITE == <<255, 255, 255, 255>>

\* ((1. - ln(n) / ln(NUM_Z_BUCKETS)) * 255.) as u8, for n = 1, 2, ...
XRayValues == <<255, 229, 214, 204, 195, 189, 183>>

\* (ln(d) / ln(w) * 255.) as u8 for the width w = 4 of the intensity band of
\* the model and d = 1, 2, 3, 4
BrightenValues == <<0, 127, 202, 255>>

\* ---- the strategies ----
EmptyMap == [k \in {} |-> 0]

XRayColoringStrategy_new == [kind |-> "XRay", z_buckets |-> EmptyMap]

\* IntensityColoringStrategy::new(min, max), for the band the model colors by
IntensityMin == 16777214

IntensityMax == 16777218

IntensityColoringStrategy_new ==
    [kind |-> "Intensity", min |-> IntensityMin, max |-> IntensityMax,
     per_column_data |-> EmptyMap]

\* the strategies of the model: the one that keeps sets and one of those that
\* keep sums (PointColor sums channels that are fractions, HeightStddev keeps
\* a running variance)
Strategies == {XRayColoringStrategy_new, IntensityColoringStrategy_new}

\* HashMap::entry(key): or_insert / get_mut
MapPut(m, key, value) == [k \in DOMAIN m \cup {key} |-> IF k = key THEN value ELSE m[k]]

\* Ok with the strategy after the point
XRay_process(s, p, x, y, z) ==
    LET key == <<x, y>>
    IN  IF key \in DOMAIN s.z_buckets
        THEN OkOf([s EXCEPT !.z_buckets = MapPut(@, key, @[key] \cup {z})])
        ELSE OkOf([s EXCEPT !.z_buckets = MapPut(@, key, {z})])

XRay_get_pixel_color(s, x, y) ==
    IF <<x, y>> \notin DOMAIN s.z_buckets THEN WHITE
    ELSE LET value == XRayValues[Cardinality(s.z_buckets[<<x, y>>])]
         IN  <<value, value, value, value>>

\* `per_column_data.sum += intensity`
Sum(sum, i) == F32Add(sum, i)

\* Ok with the strategy after the point, or the panic for a point without
\* intensity
Intensity_process(s, p, x, y, z) ==
    IF p.intensity = None
    THEN Panic("Coloring by intensity was requested, but point without intensity found.")
    ELSE LET i == p.intensity[2]
             key == <<x, y>>
         IN  IF i < 0 THEN OkOf(s)
             ELSE IF key \in DOMAIN s.per_column_data
             THEN OkOf([s EXCEPT !.per_column_data =
                           MapPut(@, key, [sum |-> Sum(@[key].sum, i),
                                           count |-> @[key].count + 1])])
             ELSE OkOf([s EXCEPT !.per_column_data =
                           MapPut(@, key, [sum |-> i, count |-> 1])])

Intensity_get_pixel_color(s, x, y) ==
    IF <<x, y>> \notin DOMAIN s.per_column_data THEN WHITE
    ELSE LET c == s.per_column_data[<<x, y>>]
             mean == F32Min(F32Max(F32Div(c.sum, c.count), s.min), s.max)
             brighten == BrightenValues[mean - s.min]
         IN  <<brighten, brighten, brighten, 255>>

\* dynamic dispatch over the strategy
process_discretized_point(s, p, x, y, z) ==
    IF s.kind = "XRay" THEN XRay_process(s, p, x, y, z)
    ELSE Intensity_process(s, p, x, y, z)

get_pixel_color(s, x, y) ==
    IF s.kind = "XRay" THEN XRay_get_pixel_color(s, x, y)
    ELSE Intensity_get_pixel_color(s, x, y)

\* ((v - min) / dim * n) as u32: exact in f32 for the box of the model
Discretize(v, min, d, n) == ((v - min) * n) \div d

\* ((1. - (v - min) / dim) * n) as u32
DiscretizeFlipped(v, min, d, n) == ((d - (v - min)) * n) \div d

\* the pixel and the z bucket the closure computes for p
Pixel(p) ==
    [x |-> Discretize(p.position[1], bbox.min[1], dim(bbox)[1], image_width),
     y |-> DiscretizeFlipped(p.position[2], bbox.min[2], dim(bbox)[2], image_height),
     z |-> Discretize(p.position[3], bbox.min[3], dim(bbox)[3], NUM_Z_BUCKETS)]

\* the closure of for_each, on the strategy
Closure(s, p) ==
    LET d == Pixel(p) IN process_discretized_point(s, p, d.x, d.y, d.z)

\* the image the two loops fill: RgbImage::new, then put_pixel per pixel
Render(s, width, height) ==
    [width |-> width, height |-> height,
     pixels |-> [xy \in (0..(width - 1)) \X (0..(height - 1)) |->
                    LET c == get_pixel_color(s, xy[1], xy[2])
                    IN  <<c[1], c[2], c[3]>>]]

ReturnsEarlyAlways(seen) == TRUE

\* `if !seen_any_points { return false; }`
ReturnsEarly(seen) == ~seen

Running == <<"running">>

Returns(b) == <<"returned", b>>

XrayInit ==
    /\ xr_points \in SeqsUpTo(XrayPoint, MaxXrayPoints)
    /\ coloring_strategy \in Strategies
    /\ seen_any_points = FALSE
    /\ xr_processed = 0
    /\ save_result = NotCalled
    /\ png_file = None
    /\ xray_result = Running

XrayIdle ==
    /\ xr_points = <<>>
    /\ coloring_strategy = XRayColoringStrategy_new
    /\ seen_any_points = FALSE
    /\ xr_processed = 0
    /\ save_result = NotCalled
    /\ png_file = None
    /\ xray_result = NotCalled

\* one point of points_in_box(bbox) goes through the closure of for_each
xray_for_each_point ==
    /\ xray_result = Running
    /\ xr_processed < Len(xr_points)
    /\ xr_processed' = xr_processed + 1
    /\ seen_any_points' = TRUE
    /\ \E r \in {Closure(coloring_strategy, xr_points[xr_processed + 1])} :
          IF r[1] = "panic"
          THEN /\ xray_result' = r
               /\ UNCHANGED coloring_strategy
          ELSE /\ coloring_strategy' = r[2]
               /\ UNCHANGED xray_result
    /\ UNCHANGED <<xr_points, save_result, png_file>>
    /\ UNCHANGED <<niVars, fpVars, openVars, biVars, grpcVars, s2Vars, parentVars, sharedVars>>

\* the rest of xray_from_points once points_in_box is exhausted
xray_from_points_end ==
    /\ xray_result = Running
    /\ xr_processed = Len(xr_points)
    /\ IF ReturnsEarly(seen_any_points)
       THEN /\ xray_result' = Returns(FALSE)
            /\ UNCHANGED <<save_result, png_file>>
       ELSE \E saved \in {OkOf(<<>>), Err("io")} :
               /\ save_result' = saved
               /\ IF saved[1] = "Ok"
                  THEN /\ png_file' = Some(Render(coloring_strategy, image_width,
                                                  image_height))
                       /\ xray_result' = Returns(TRUE)
                  ELSE /\ UNCHANGED png_file
                       /\ xray_result' = Panic("called Result::unwrap() on an Err value")
    /\ UNCHANGED <<xr_points, coloring_strategy, seen_any_points, xr_processed>>
    /\ UNCHANGED <<niVars, fpVars, openVars, biVars, grpcVars, s2Vars, parentVars, sharedVars>>

\* ------------------------------------------------------------------------
\* build_parent: four child tiles into their parent tile
\* ------------------------------------------------------------------------
\* largest side of a child tile, in pixels
MaxTileSize == 2

\* the red channel tells the tiles apart, green and blue tell the pixel
TileShades == {0, 200}

Tile(width, height, shade) ==
    [width |-> width, height |-> height,
     pixels |-> [xy \in (0..(width - 1)) \X (0..(height - 1)) |-> <<shade, xy[1], xy[2]>>]]

\* square tiles of every side, and one tile that is not square
TileSizes == {<<n, n>> : n \in 1..MaxTileSize} \cup {<<1, 2>>}

TileImages == {Tile(wh[1], wh[2], shade) : wh \in TileSizes, shade \in TileShades}

\* slices of three and of four children
ChildrenSlices ==
    UNION {[0..(n - 1) -> {None} \cup {Some(img) : img \in TileImages}] : n \in {3, 4}}

\* RgbImage::from_pixel
from_pixel(width, height, pixel) ==
    [width |-> width, height |-> height,
     pixels |-> [xy \in (0..(width - 1)) \X (0..(height - 1)) |-> pixel]]

\* GenericImage::copy_from: `other` pixel for pixel with its top left corner
\* at (x, y)
copy_from(image, other, x, y) ==
    [image EXCEPT !.pixels =
        [xy \in DOMAIN @ |->
            IF /\ xy[1] >= x /\ xy[1] < x + other.width
               /\ xy[2] >= y /\ xy[2] < y + other.height
            THEN other.pixels[<<xy[1] - x, xy[2] - y>>]
            ELSE @[xy]]]

RECURSIVE ChildSize(_, _, _)
\* the loop over `children` from child i on: the common side of the tiles,
\* or the panic of the assertion that fails first
ChildSize(ch, i, child_size_px) ==
    IF i \notin DOMAIN ch THEN child_size_px
    ELSE IF ch[i] = None THEN ChildSize(ch, i + 1, child_size_px)
    ELSE LET c == ch[i][2]
         IN  IF c.width # c.height THEN Panic("Expected width to be equal to height.")
             ELSE IF child_size_px = None THEN ChildSize(ch, i + 1, Some(c.width))
             ELSE IF child_size_px[2] # c.width
             THEN Panic("Not all images have the same size.")
             ELSE ChildSize(ch, i + 1, child_size_px)

LayoutRowMajor(n) == << <<0, 0, 0>>, <<1, n, 0>>, <<2, 0, n>>, <<3, n, n>> >>

\* the list of (id, xoffs, yoffs) the copying loop goes through
Layout(n) == << <<1, 0, 0>>, <<0, 0, n>>, <<3, n, 0>>, <<2, n, n>> >>

RECURSIVE CopyChildren(_, _, _, _)
\* the copying loop from entry i of the layout on
CopyChildren(large_image, ch, layout, i) ==
    IF i > Len(layout) THEN large_image
    ELSE LET id == layout[i][1]
             xoffs == layout[i][2]
             yoffs == layout[i][3]
         IN  CopyChildren(IF ch[id] # None
                          THEN copy_from(large_image, ch[id][2], xoffs, yoffs)
                          ELSE large_image,
                          ch, layout, i + 1)

build_parent(ch) ==
    IF Cardinality(DOMAIN ch) # 4
    THEN Panic("assertion failed: children.len() == 4")
    ELSE LET size == ChildSize(ch, 0, None)
         IN  IF size[1] = "panic" THEN size
             ELSE IF size = None THEN Panic("No children passed to build_parent.")
             ELSE LET child_size_px == size[2]
                      large_image == from_pixel(child_size_px * 2, child_size_px * 2,
                                                <<255, 255, 255>>)
                  IN  OkOf(CopyChildren(large_image, ch, Layout(child_size_px), 1))

ParentInit ==
    /\ children \in ChildrenSlices
    /\ parent_result = NotCalled

ParentIdle ==
    /\ children = <<>>
    /\ parent_result = NotCalled

build_parent_call ==
    /\ parent_result = NotCalled
    /\ parent_result' = build_parent(children)
    /\ UNCHANGED children
    /\ UNCHANGED <<niVars, fpVars, openVars, biVars, grpcVars, s2Vars, xrayVars, sharedVars>>

\* ------------------------------------------------------------------------
\* Handlers iterating over the octree they share through Arc
\* ------------------------------------------------------------------------
\* the iterations running at the same time: one in each of the two handlers
\* main() hands a clone of the Arc to
Iterations == {"visible_nodes", "nodes_data"}

\* indexes as build_octree leaves them: every node but the root has its parent
ClosedIndexes ==
    {ix \in SUBSET Universe : \A id \in ix : id = Root \/ parent_id(id) \in ix}

\* the filter functions of the handlers, each as the set of ids it accepts:
\* every node, the nodes above the deepest level, all but the first subtree
SharedFilters ==
    {Universe,
     {id \in Universe : id[1] < MaxLevel},
     {id \in Universe : ~(id = get_child_id(Root, 0))}}

RECURSIVE RunNextWith(_, _)
\* the while loop of next() for the filter that accepts the ids in `accept`
RunNextWith(q, accept) ==
    IF q = <<>> THEN [queue |-> <<>>, ret |-> None]
    ELSE LET current == Head(q)
         IN  IF current \in accept
             THEN [queue |-> AfterFilter(Tail(q), current, TRUE), ret |-> Some(current)]
             ELSE RunNextWith(AfterFilter(Tail(q), current, FALSE), accept)

QueueOfFirst(queues, i) == queues["visible_nodes"]

\* `self.node_ids`: the queue is a field of the iterator
QueueOf(queues, i) == queues[i]

SharedInit ==
    /\ sh_filter \in [Iterations -> SharedFilters]
    /\ sh_node_ids = [i \in Iterations |-> <<Root>>]
    /\ sh_returned = [i \in Iterations |-> <<>>]
    /\ sh_last = [i \in Iterations |-> NotCalled]

SharedIdle ==
    /\ sh_filter = <<>>
    /\ sh_node_ids = <<>>
    /\ sh_returned = <<>>
    /\ sh_last = <<>>

\* the index the handlers share
SharedIndexInit ==
    /\ nodes \in ClosedIndexes
    /\ node_ids = <<>>
    /\ returned = <<>>
    /\ filter_calls = <<>>
    /\ ni_last = NotCalled

\* next() of the iteration i of some handler, until it has returned None
Shared_next(i) ==
    /\ sh_last[i] # None
    /\ \E r \in {RunNextWith(QueueOf(sh_node_ids, i), sh_filter[i])} :
          /\ sh_node_ids' = [sh_node_ids EXCEPT ![i] = r.queue]
          /\ sh_last' = [sh_last EXCEPT ![i] = r.ret]
          /\ sh_returned' = IF r.ret = None THEN sh_returned
                            ELSE [sh_returned EXCEPT ![i] = Append(@, r.ret[2])]
    /\ UNCHANGED sh_filter
    /\ UNCHANGED <<niVars, fpVars, openVars, biVars, grpcVars, s2Vars, xrayVars, parentVars>>

\* ------------------------------------------------------------------------
\* Properties
\* ------------------------------------------------------------------------
Range(f) == {f[i] : i \in DOMAIN f}

RECURSIVE Flatten(_)
\* the concatenation of a sequence of sequences
Flatten(ss) == IF ss = <<>> THEN <<>> ELSE Head(ss) \o Flatten(Tail(ss))

InCulling(p) == p.position \in culling

\* C1: FilteredPointsIterator emits exactly the points of the node whose
\* position the culling contains, in file order: what has been emitted is the
\* filtered prefix read so far, a returned point is the point just read and is
\* inside, and None is returned only when the whole node has been read.
C1_FilteredSubsequence ==
    /\ fp_emitted = SelectSeq(SubSeq(node_points, 1, node_iterator), InCulling)
    /\ fp_last = None => node_iterator = Len(node_points)
    /\ fp_last # None /\ fp_last # NotCalled =>
          /\ node_iterator >= 1
          /\ fp_last[2] = node_points[node_iterator]
          /\ InCulling(fp_last[2])

\* the node is exhausted, two points were emitted around a culled one
C1_Witness ==
    /\ fp_last = None
    /\ Len(node_points) = 3
    /\ Len(fp_emitted) = 2
    /\ ~ InCulling(node_points[2])

\* C2: when func returns an error on its j-th invocation, that invocation is
\* the last one, try_for_each_batch returns that error, and no point is pulled
\* from the region iterator after the pull that filled batch j.
C2_ErrorStopsIteration ==
    \A j \in 1..Len(cb_results) :
        cb_results[j] # Ok =>
            /\ j = Len(cb_results)
            /\ Len(cb_calls) = j
            /\ bi_result = cb_results[j]
            /\ bi_pulled = cb_calls[j].pulled

\* the second invocation failed and a point of the stream was never pulled
C2_Witness ==
    /\ Len(cb_results) = 2
    /\ cb_results[2] = "Cancelled"
    /\ bi_result = "Cancelled"
    /\ bi_pulled < Len(bi_stream)

ToLocal(x) == IF local_from_global = None THEN x ELSE Transform(local_from_global[2], x)

StreamIntensities ==
    LET with == SelectSeq(bi_stream, LAMBDA p : p.intensity # None)
    IN  [i \in 1..Len(with) |-> with[i].intensity[2]]

BatchIntensities(d) == IF "intensity" \in DOMAIN d.layers THEN d.layers.intensity ELSE <<>>

\* C3: when try_for_each_batch returns Ok, the batches handed to func,
\* concatenated in call order, are the points of the region iterator in its
\* order (positions in the local frame), none missing and none twice.
C3_BatchesConcatenateToStream ==
    bi_result = Ok =>
        /\ Flatten([k \in 1..Len(cb_calls) |-> cb_calls[k].data.position])
              = [i \in 1..Len(bi_stream) |-> ToLocal(bi_stream[i].position)]
        /\ Flatten([k \in 1..Len(cb_calls) |-> cb_calls[k].data.layers.color])
              = [i \in 1..Len(bi_stream) |-> bi_stream[i].color]
        /\ Flatten([k \in 1..Len(cb_calls) |-> BatchIntensities(cb_calls[k].data)])
              = StreamIntensities

\* Ok after a full batch and the flush of a shorter residual batch
C3_Witness ==
    /\ bi_result = Ok
    /\ Len(bi_stream) = 3
    /\ Len(cb_calls) = 2
    /\ Len(cb_calls[1].data.position) = 2
    /\ Len(cb_calls[2].data.position) = 1

\* C4: every batch handed to func holds at most batch_size positions, and
\* every batch but the last holds exactly batch_size positions.
C4_BatchSizeRespected ==
    \A k \in 1..Len(cb_calls) :
        /\ Len(cb_calls[k].data.position) <= batch_size
        /\ k < Len(cb_calls) => Len(cb_calls[k].data.position) = batch_size

\* the statement of C4 for the batch sizes of at least one
C4_PositiveBatchSize == batch_size >= 1 => C4_BatchSizeRespected

FirstConstruction(i) == \A j \in 1..(i - 1) : constructed[j][1] # constructed[i][1]

\* C5: configured with Truncate, the splitter constructs the writer of a cell
\* with Truncate exactly the first time it constructs one for that cell and
\* with Append every later time; configured with Append it never constructs a
\* writer with Truncate.
C5_TruncateOnlyOnFirstTouch ==
    \A i \in 1..Len(constructed) :
        /\ open_mode = Truncate =>
              (constructed[i][2] = Truncate <=> FirstConstruction(i))
        /\ open_mode = Append_ => constructed[i][2] = Append_

\* in a Truncate session an evicted writer was constructed again
C5_Witness ==
    /\ open_mode = Truncate
    /\ \E i, j \in 1..Len(constructed) :
          /\ i < j
          /\ constructed[i][1] = constructed[j][1]
          /\ constructed[j][2] = Append_

SessionOf(c) == SelectSeq(session, LAMBDA p : p.position.cell = c)

\* C6: at the end of a Truncate session whose writers never failed, the file
\* of every cell written to holds the points written to that cell in the
\* session, in the order they were written, and nothing else.
C6_FilesHoldSessionData ==
    (s2_op = "drop" /\ open_mode = Truncate /\ ~ writer_failed) =>
        \A c \in Cells :
            LET ps == SessionOf(c)
            IN  ps # <<>> =>
                  /\ c \in DOMAIN files
                  /\ files[c].position = [i \in 1..Len(ps) |-> ps[i].position]
                  /\ files[c].attributes = [k \in AttributeKeys |->
                                               [i \in 1..Len(ps) |-> ps[i].intensity]]

\* a session in which a cell was written to before and
\* after its writer was evicted
C6_Witness ==
    /\ s2_op = "drop" /\ open_mode = Truncate /\ ~ writer_failed
    /\ \E i, j \in 1..Len(constructed) :
          /\ i < j
          /\ constructed[i][1] = constructed[j][1]
          /\ Len(SessionOf(constructed[i][1])) >= 2
          /\ SessionOf(constructed[i][1])[1].intensity = 1
          /\ Len(files[constructed[i][1]].position) = Len(SessionOf(constructed[i][1]))

\* C7: write accepts a batch exactly when the radius of every point lies in
\* the closed band [EARTH_RADIUS_MIN_M, EARTH_RADIUS_MAX_M].
C7_AcceptsExactlyTheBand ==
    s2_op = "write" => (s2_result # "InvalidInput" <=> batch_info.in_band)

\* the statement of C7 for the batches without NaN: rejected exactly when a
\* radius is strictly below the lower or strictly above the upper bound
C7_FiniteRadii ==
    s2_op = "write" => (s2_result = "InvalidInput" <=> batch_info.outside)

\* C8: a write whose batch holds a point outside the band returns the error
\* and leaves the LRU, the already-opened set and every file as they were, and
\* constructs no writer.
C8_RejectedWriteChangesNothing ==
    [][(s2_op' = "write" /\ batch_info'.outside) =>
          /\ s2_result' = "InvalidInput"
          /\ UNCHANGED <<writers, already_opened_writers, files, constructed>>]_vars

\* a rejected batch with a valid point ahead of the invalid one, while a
\* writer is open
C8_Witness ==
    /\ s2_op = "write"
    /\ batch_info.mixed
    /\ s2_result = "InvalidInput"
    /\ writers # <<>>

Touched ==
    Range(node_ids) \cup Range(returned) \cup {filter_calls[k][1] : k \in DOMAIN filter_calls}

\* C9: a node the filter rejects is not returned and no node below it is ever
\* enqueued, filtered or returned; every returned node but the root has its
\* parent returned before it.
C9_RejectedSubtreePruned ==
    /\ \A i \in 1..Len(returned) :
          returned[i] # Root => \E j \in 1..(i - 1) : returned[j] = parent_id(returned[i])
    /\ \A k \in 1..Len(filter_calls) :
          ~ filter_calls[k][2] =>
              /\ filter_calls[k][1] \notin Range(returned)
              /\ \A d \in Touched : ~ IsProperDescendant(d, filter_calls[k][1])

\* the iteration ended, having rejected a node that has a child in the index
\* and returned others
C9_Witness ==
    /\ ni_last = None
    /\ Len(returned) >= 2
    /\ \E k \in 1..Len(filter_calls) :
          /\ ~ filter_calls[k][2]
          /\ \E c \in 0..(NumChildren - 1) : get_child_id(filter_calls[k][1], c) \in nodes

ParentClosed(ns) == \A id \in ns : id # Root => parent_id(id) \in ns

\* C10: over an index that holds the root and the parent of every other
\* entry, an iteration whose filter accepted every node has, when it ends,
\* returned every node of the index exactly once.
C10_AcceptAllReturnsEveryNodeOnce ==
    (/\ ni_last = None
     /\ Root \in nodes
     /\ ParentClosed(nodes)
     /\ \A k \in 1..Len(filter_calls) : filter_calls[k][2]) =>
        /\ Range(returned) = nodes
        /\ Len(returned) = Cardinality(nodes)

\* such an iteration over an index with nodes on two levels below the root
C10_Witness ==
    /\ ni_last = None
    /\ Root \in nodes
    /\ ParentClosed(nodes)
    /\ \A k \in 1..Len(filter_calls) : filter_calls[k][2]
    /\ Cardinality(nodes) >= 5
    /\ \E id \in nodes : id[1] = 2 /\ id[2] % NumChildren = NumChildren - 1

InSubtree(d, a) == d = a \/ IsProperDescendant(d, a)

\* C11: the nodes are returned in depth-first order: once a node has been
\* returned, every returned node of its subtree is returned before any node
\* outside that subtree.
C11_DepthFirstOrder ==
    \A i, j, k \in 1..Len(returned) :
        (i < j /\ j < k /\ InSubtree(returned[k], returned[i])) =>
            InSubtree(returned[j], returned[i])

\* the cube of the node, which spans Positions, lies fully inside the region
NodeInside == Positions \subseteq culling

\* C12: for a node whose cube lies fully inside the query region the points
\* are emitted without evaluating the culling predicate: the number of
\* culling.contains calls made for the node is zero.
C12_NoContainsCallsInside == NodeInside => contains_calls = 0

\* C13: when the data of the node cannot be read (the provider fails, or the
\* position or color stream is missing), the error is handed to the caller as
\* an error value; the process is not aborted.
C13_ReadErrorSurfaced ==
    (open_result # NotCalled /\ from_data_provider(provider)[1] = "Err") =>
        open_result = from_data_provider(provider)

\* try_for_each_batch has returned
BatchReturned == bi_result \notin {"new", "running", "idle"}

\* C14: func is never handed an empty batch: a query whose region yields no
\* point makes no invocation and returns Ok, and a stream whose length is a
\* multiple of batch_size gets no trailing invocation after its last full
\* batch.
C14_NoEmptyBatch ==
    /\ \A k \in 1..Len(cb_calls) : cb_calls[k].data.position # <<>>
    /\ (BatchReturned /\ bi_stream = <<>>) => (cb_calls = <<>> /\ bi_result = Ok)
    /\ (bi_result = Ok /\ batch_size >= 1 /\ Len(bi_stream) % batch_size = 0) =>
          Len(cb_calls) = Len(bi_stream) \div batch_size

\* Ok after a stream of two full batches: the closing callback found the
\* columns empty
C14_Witness ==
    /\ bi_result = Ok
    /\ batch_size = 1
    /\ Len(bi_stream) = 2
    /\ Len(cb_calls) = 2
    /\ position = <<>>

\* C15: in every PointData handed to func, each layer column present (color,
\* and intensity when present) is as long as the position column, whatever
\* the stream: points with and without intensity may share a batch.
C15_ColumnsShareLength ==
    \A k \in 1..Len(cb_calls) :
        \A l \in DOMAIN cb_calls[k].data.layers :
            Len(cb_calls[k].data.layers[l]) = Len(cb_calls[k].data.position)

\* the statement of C15 for the streams whose points all carry an intensity
\* or all carry none
C15_UniformStreams ==
    (\A i, j \in 1..Len(bi_stream) :
        (bi_stream[i].intensity = None) = (bi_stream[j].intensity = None)) =>
        C15_ColumnsShareLength

DeliveredPositions == Flatten([k \in 1..Len(cb_calls) |-> cb_calls[k].data.position])

\* C16: with global_from_local set, the iterator culls in the global frame
\* and hands func the positions in the local frame, so that for every culling
\* kind each delivered position lies inside the region as the caller gave it;
\* without it the culling and the positions are passed through unchanged.
C16_DeliveredInsideGivenRegion ==
    /\ \A i \in 1..Len(DeliveredPositions) :
          CullingContains(location_culling, DeliveredPositions[i])
    /\ local_from_global = None =>
          /\ bi_culling = location_culling
          /\ \A i \in 1..Len(DeliveredPositions) :
                DeliveredPositions[i] = bi_stream[i].position

\* the statement of C16 for the kinds other than Frustum
C16_BoxesAndBeams == location_culling[1] # "Frustum" => C16_DeliveredInsideGivenRegion

\* the indices of the points of the batch that lie in cell c, ascending
IndicesOf(batch, c) ==
    SelectSeq([i \in 1..Len(batch.position) |-> i], LAMBDA i : batch.position[i].cell = c)

\* C17: a write of a batch inside the band partitions it by cell: each write
\* made to a writer carries the points of one cell, all of them and in input
\* order, with every attribute column holding the entries of those same
\* points, and goes to the writer of that cell; no cell is written twice, and
\* when the call returns Ok every cell of the batch has been written.
C17_PartitionedByCell ==
    (s2_op = "write" /\ batch_info.in_band) =>
        /\ \A k \in 1..Len(issued) :
              LET c == issued[k].cell
                  idx == IndicesOf(points_batch, c)
              IN  /\ idx # <<>>
                  /\ issued[k].batch.position =
                        [j \in 1..Len(idx) |-> points_batch.position[idx[j]]]
                  /\ DOMAIN issued[k].batch.attributes = DOMAIN points_batch.attributes
                  /\ \A a \in DOMAIN points_batch.attributes :
                        issued[k].batch.attributes[a] =
                            [j \in 1..Len(idx) |-> points_batch.attributes[a][idx[j]]]
        /\ \A k, l \in 1..Len(issued) : issued[k].cell = issued[l].cell => k = l
        /\ s2_result = Ok =>
              {issued[k].cell : k \in 1..Len(issued)}
                  = {points_batch.position[i].cell : i \in 1..Len(points_batch.position)}

\* an accepted batch whose points alternate between two cells
C17_Witness ==
    /\ s2_op = "write" /\ batch_info.in_band /\ s2_result = Ok
    /\ Len(points_batch.position) = 3
    /\ points_batch.position[1].cell = points_batch.position[3].cell
    /\ points_batch.position[1].cell # points_batch.position[2].cell
    /\ Len(issued) = 2

GrpcReturned == grpc_result # NotCalled /\ grpc_result[1] \in {"Ok", "Err"}

\* C19: once func has returned false for a reply it is not invoked again for
\* any later reply of the stream: the iteration has ended.
C19_NoCallAfterStop ==
    \A j \in 1..Len(func_calls) :
        ~ func_calls[j].answer =>
            /\ j = Len(func_calls)
            /\ GrpcReturned
            /\ consumed = j

\* func stopped at the first reply of a stream that had a second one
C19_Witness ==
    /\ Len(func_calls) = 1
    /\ ~ func_calls[1].answer
    /\ Len(replies) = 2
    /\ replies[2][1] = "Ok"
    /\ GrpcReturned

\* C20: when func stops the iteration, get_points_in_box returns a Cancelled
\* error, which differs from the Ok of a complete iteration and from the
\* error of a transport failure.
C20_StopReturnsCancelled ==
    (GrpcReturned /\ interrupted) => grpc_result = Err("Cancelled")

\* C21: xray_from_points returns false exactly when points_in_box(bbox)
\* yielded no point, and then png_file holds no image; a call that returns
\* after at least one point returns true and has stored under png_file the
\* image of image_width x image_height pixels, every pixel in the color of the
\* strategy; no image is stored by a call that has not returned true.
C21_FalseExactlyWhenNoPoint ==
    /\ xray_result = Returns(FALSE) => xr_points = <<>> /\ png_file = None
    /\ xray_result[1] = "returned" /\ xr_points = <<>> => xray_result = Returns(FALSE)
    /\ xray_result[1] = "returned" /\ xr_points # <<>> => xray_result = Returns(TRUE)
    /\ xray_result = Returns(TRUE) =>
          /\ png_file # None
          /\ png_file[2].width = image_width
          /\ png_file[2].height = image_height
          /\ DOMAIN png_file[2].pixels = (0..(image_width - 1)) \X (0..(image_height - 1))
          /\ \A xy \in DOMAIN png_file[2].pixels :
                \E c \in {get_pixel_color(coloring_strategy, xy[1], xy[2])} :
                   png_file[2].pixels[xy] = <<c[1], c[2], c[3]>>
    /\ xray_result # Returns(TRUE) => png_file = None

\* a call over a box without points has returned false
C21_Witness ==
    /\ xray_result = Returns(FALSE)
    /\ xr_points = <<>>
    /\ png_file = None

\* a call over a box with points has written the image
C21_WitnessImage ==
    /\ xray_result = Returns(TRUE)
    /\ Len(xr_points) >= 2
    /\ png_file # None

\* the slice holds four children, at least one is there, and every child that
\* is there is a square tile of side n
SquareTiles(n) ==
    /\ DOMAIN children = 0..3
    /\ \E i \in 0..3 : children[i] # None
    /\ \A i \in 0..3 :
          children[i] # None => children[i][2].width = n /\ children[i][2].height = n

\* the n x n quadrant of img at (xoffs, yoffs) is the child pixel for pixel,
\* or white where there is no child
QuadrantIs(img, xoffs, yoffs, n, child) ==
    \A x, y \in 0..(n - 1) :
       img.pixels[<<xoffs + x, yoffs + y>>] =
          IF child = None THEN <<255, 255, 255>> ELSE child[2].pixels[<<x, y>>]

\* C22: build_parent on four square tiles of side N returns a 2N x 2N image
\* with child 1 in the top-left quadrant (0, 0), child 0 in the bottom-left
\* (0, N), child 3 in the top-right (N, 0) and child 2 in the bottom-right
\* (N, N), each copied pixel for pixel, and the quadrant of a missing child
\* white.
C22_QuadrantLayout ==
    \A n \in 1..MaxTileSize :
       parent_result # NotCalled /\ SquareTiles(n) =>
          /\ parent_result[1] = "Ok"
          /\ parent_result[2].width = 2 * n
          /\ parent_result[2].height = 2 * n
          /\ DOMAIN parent_result[2].pixels = (0..(2 * n - 1)) \X (0..(2 * n - 1))
          /\ QuadrantIs(parent_result[2], 0, 0, n, children[1])
          /\ QuadrantIs(parent_result[2], 0, n, n, children[0])
          /\ QuadrantIs(parent_result[2], n, 0, n, children[3])
          /\ QuadrantIs(parent_result[2], n, n, n, children[2])

\* a parent was built from tiles of the largest side that differ from each
\* other, with one child missing
C22_Witness ==
    /\ parent_result # NotCalled
    /\ SquareTiles(MaxTileSize)
    /\ children[0] = None
    /\ children[1] # None /\ children[2] # None /\ children[3] # None
    /\ children[1] # children[3]
    /\ children[2] # children[3]
    /\ parent_result[1] = "Ok"

\* C23: build_parent called with [None, None, None, None] returns a square
\* image of even side that is entirely white.
C23_AllMissingGivesWhite ==
    parent_result # NotCalled /\ children = [i \in 0..3 |-> None] =>
       /\ parent_result[1] = "Ok"
       /\ parent_result[2].width = parent_result[2].height
       /\ parent_result[2].width % 2 = 0
       /\ \A xy \in DOMAIN parent_result[2].pixels :
             parent_result[2].pixels[xy] = <<255, 255, 255>>

RECURSIVE ProcessAll(_, _)
\* the strategy s after the points ps went through the closure, in order
ProcessAll(s, ps) ==
    IF ps = <<>> THEN OkOf(s)
    ELSE LET r == Closure(s, Head(ps))
         IN  IF r[1] = "panic" THEN r ELSE ProcessAll(r[2], Tail(ps))

\* the strategy of the kind of s as its constructor leaves it
Fresh(s) ==
    IF s.kind = "XRay" THEN XRayColoringStrategy_new ELSE IntensityColoringStrategy_new

\* the colors of all pixels a point of the box can fall into
AllPixelColors(s) ==
    [xy \in (0..image_width) \X (0..image_height) |-> get_pixel_color(s, xy[1], xy[2])]

\* every order of the points processed so far gives the pixel colors the
\* order of the run gave
OrderIndependent ==
    xray_result[1] # "panic" =>
       \A o \in Orders(1..xr_processed) :
          \E r \in {ProcessAll(Fresh(coloring_strategy),
                               [i \in 1..xr_processed |-> xr_points[o[i]]])} :
             /\ r[1] = "Ok"
             /\ AllPixelColors(r[2]) = AllPixelColors(coloring_strategy)

\* C24: for each coloring strategy (XRay sets of z buckets, sums and counts of
\* the others), processing the same multiset of discretized points in any
\* order gives the same get_pixel_color for every pixel.
C24_OrderIndependent == OrderIndependent

\* the part of C24 about the XRay strategy alone: any order of the points
\* gives the same pixel colors
C24_XRayOrderIndependent == coloring_strategy.kind = "XRay" => OrderIndependent

\* the part of C24 about repeated points: under the XRay strategy a point
\* whose (x, y, z) was seen before changes no pixel
C24_XRayRepeatChangesNothing ==
    [][(/\ coloring_strategy.kind = "XRay"
        /\ xr_processed' = xr_processed + 1
        /\ \E i \in 1..xr_processed : Pixel(xr_points[i]) = Pixel(xr_points[xr_processed + 1]))
       => AllPixelColors(coloring_strategy') = AllPixelColors(coloring_strategy)]_vars

\* three intensities in one pixel whose f32 sum depends on the order
C24_WitnessThreeInOnePixel ==
    /\ coloring_strategy.kind = "Intensity"
    /\ xr_processed = 3
    /\ xray_result = Running
    /\ \A i \in 1..3 : Pixel(xr_points[i]).x = 0 /\ Pixel(xr_points[i]).y = 1
    /\ xr_points[1].intensity = Some(16777218)
    /\ xr_points[2].intensity = Some(16777216)
    /\ xr_points[3].intensity = Some(16777218)

RECURSIVE RunAlone(_, _)
\* the ids an iteration with the queue q and the filter `accept` returns up
\* to its first None, when it is the only one running
RunAlone(q, accept) ==
    LET r == RunNextWith(q, accept)
    IN  IF r.ret = None THEN <<>> ELSE <<r.ret[2]>> \o RunAlone(r.queue, accept)

C25_IndexNeverMutated == [][nodes' = nodes]_vars

OpenedCells == {c[1] : c \in Range(constructed)}

\* the cells of the writers the LRU holds
LruCells == {w.cell : w \in Range(writers)}

\* C26: for either configured open mode, every cell for which a writer has
\* been opened in this session, and every cell currently held in the writer
\* LRU, is a member of already_opened_writers.
C26_OpenedCellsAreRecorded ==
    /\ OpenedCells \subseteq already_opened_writers
    /\ LruCells \subseteq already_opened_writers

\* C26 as amended: with the configured mode Truncate every opened cell and
\* every cell of the LRU is in already_opened_writers; with the configured
\* mode Append already_opened_writers stays empty; in both modes the set
\* holds opened cells only.
C26_RecordedWhenTruncating ==
    /\ open_mode = Truncate =>
          /\ OpenedCells \subseteq already_opened_writers
          /\ LruCells \subseteq already_opened_writers
    /\ open_mode = Append_ => already_opened_writers = {}
    /\ already_opened_writers \subseteq OpenedCells
    /\ LruCells \subseteq OpenedCells

\* a truncating splitter has opened more cells than its LRU holds
C26_Witness ==
    /\ open_mode = Truncate
    /\ LruCells # {}
    /\ OpenedCells \ LruCells # {}
    /\ Cardinality(already_opened_writers) >= 2

\* C27: the nodes are returned in breadth-first order: the level never
\* decreases along the returned sequence, the root, when it is returned,
\* comes first, and among the returned nodes of one level the index within
\* the level is strictly increasing.
C27_BreadthFirstOrder ==
    /\ \A i, j \in 1..Len(returned) :
          i < j =>
             /\ returned[i][1] <= returned[j][1]
             /\ returned[i][1] = returned[j][1] => returned[i][2] < returned[j][2]
    /\ Root \in Range(returned) => returned[1] = Root

\* nodes of two parents were returned on the deepest level, after two nodes
\* of the level above
C27_Witness ==
    /\ \E i, j \in 1..Len(returned) :
          /\ returned[i][1] = MaxLevel
          /\ returned[j][1] = MaxLevel
          /\ parent_id(returned[i]) # parent_id(returned[j])
    /\ \E i, j \in 1..Len(returned) :
          /\ i # j
          /\ returned[i][1] = MaxLevel - 1
          /\ returned[j][1] = MaxLevel - 1

\* the provider supplies both the position and the color stream of the node
SuppliesPositionAndColor ==
    /\ provider.position_color[1] = "Ok"
    /\ {"position", "color"} \subseteq provider.position_color[2]

\* C28: from_data_provider with num_points > 0 fails when the provider cannot
\* supply the position or the color stream; a failed intensity request is no
\* error, the node is then read with the color attribute alone; the error of
\* the intensity step arises exactly when the provider answers the intensity
\* request with Ok and no "intensity" entry.
C28_IntensityRequestMayFail ==
    (read_result # NotCalled /\ provider.num_points > 0) =>
       /\ ~ SuppliesPositionAndColor => read_result[1] = "Err"
       /\ (/\ SuppliesPositionAndColor
           /\ provider.intensity[1] = "Err"
           /\ provider.reader[1] = "Ok") => read_result = OkOf({"color"})
       /\ (SuppliesPositionAndColor /\ provider.intensity[1] = "Err") =>
             read_result \in {OkOf({"color"}), provider.reader}
       /\ read_result = Err("No intensity reader available.") <=>
             /\ SuppliesPositionAndColor
             /\ provider.intensity[1] = "Ok"
             /\ "intensity" \notin provider.intensity[2]

\* a node with points was opened from a provider whose intensity request
\* failed, and was read with the color attribute alone
C28_Witness ==
    /\ provider.num_points > 0
    /\ SuppliesPositionAndColor
    /\ provider.intensity[1] = "Err"
    /\ read_result = OkOf({"color"})

\* the attribute entries a batch holds
EntriesOf(b) == UNION {Range(b.attributes[a]) : a \in DOMAIN b.attributes}

\* the attribute entries written to the cell: in its file, or still in the
\* buffer of its writer
WrittenTo(c) ==
    (IF c \in DOMAIN files THEN EntriesOf(files[c]) ELSE {})
    \cup UNION {EntriesOf(w.buf) : w \in {x \in Range(writers) : x.cell = c}}

\* C29: when the writer of some cell returns an error during write, write
\* returns that error and stops: the failed write is the last one the call
\* made, the groups of the batch it had not come to are written nowhere, and
\* the groups written before it to other cells stay written; a call whose
\* writes all succeeded does not return the error.
C29_FirstWriterErrorStops ==
    s2_op = "write" =>
       /\ (\E k \in 1..Len(issued) : ~ issued[k].ok) <=> s2_result = "WriterError"
       /\ s2_result = "WriterError" =>
             /\ ~ issued[Len(issued)].ok
             /\ \A k \in 1..(Len(issued) - 1) :
                   /\ issued[k].ok
                   /\ issued[k].cell # issued[Len(issued)].cell
                   /\ EntriesOf(issued[k].batch) # {}
                   /\ EntriesOf(issued[k].batch) \subseteq WrittenTo(issued[k].cell)
             /\ \A i \in 1..Len(points_batch.position) :
                   (\A k \in 1..(Len(issued) - 1) :
                       issued[k].cell # points_batch.position[i].cell) =>
                      \A a \in DOMAIN points_batch.attributes, c \in Cells :
                         points_batch.attributes[a][i] \notin WrittenTo(c)

\* a write failed on its second group, after the first went to another cell
C29_Witness ==
    /\ s2_op = "write"
    /\ s2_result = "WriterError"
    /\ Len(issued) = 2
    /\ issued[1].ok
    /\ Len(points_batch.position) = 3

\* a write failed on its first group and left the other group of the batch
C29_WitnessFirstGroup ==
    /\ s2_op = "write"
    /\ s2_result = "WriterError"
    /\ Len(issued) = 1
    /\ \E i \in 1..Len(points_batch.position) :
          points_batch.position[i].cell # issued[1].cell

\* C30: over a finite node index and for any filter, NodeIdsIterator
\* terminates: when next keeps being called it eventually returns None; no
\* node id is returned more than once; and once next has returned None the
\* queue is empty and every later call returns None again.
C30_Terminates ==
    /\ <>(ni_last = None)
    /\ [](\A i, j \in 1..Len(returned) : returned[i] = returned[j] => i = j)
    /\ [](ni_last = None => node_ids = <<>>)
    /\ [][ni_last = None => (ni_last' = None /\ returned' = returned)]_vars

\* an iteration over an index with nodes on every level has ended, having
\* returned nodes and rejected one
C30_Witness ==
    /\ ni_last = None
    /\ node_ids = <<>>
    /\ Len(returned) >= 3
    /\ \E id \in Range(returned) : id[1] = MaxLevel
    /\ \E k \in 1..Len(filter_calls) : ~ filter_calls[k][2]

\* the point lies in the box, boundaries included
InBox(p) == \A i \in 1..3 : bbox.min[i] <= p.position[i] /\ p.position[i] <= bbox.max[i]

\* C31: every point of the box that went through the closure was discretized
\* to a pixel of the image: 0 <= x < image_width and 0 <= y < image_height,
\* so that the loops writing the image read the pixel it contributed to.
C31_PixelInsideImage ==
    \A i \in 1..xr_processed :
       InBox(xr_points[i]) =>
          /\ 0 <= Pixel(xr_points[i]).x /\ Pixel(xr_points[i]).x < image_width
          /\ 0 <= Pixel(xr_points[i]).y /\ Pixel(xr_points[i]).y < image_height

\* the part of C31 about the faces of the box other than y = min.y and
\* x = max.x: the points off those two faces are discretized into the image
C31_InsideOffTwoFaces ==
    \A i \in 1..xr_processed :
       (/\ InBox(xr_points[i])
        /\ xr_points[i].position[1] < bbox.max[1]
        /\ xr_points[i].position[2] > bbox.min[2]) =>
          /\ Pixel(xr_points[i]).x \in 0..(image_width - 1)
          /\ Pixel(xr_points[i]).y \in 0..(image_height - 1)

\* an image was written for a single point of the face y = min.y, and it is
\* white all over: the point went to the row image_height
C31_DroppedPointImage ==
    /\ xray_result = Returns(TRUE)
    /\ Len(xr_points) = 1
    /\ xr_points[1].position = <<1, 0, 0>>
    /\ coloring_strategy.kind = "XRay"
    /\ \A xy \in DOMAIN png_file[2].pixels : png_file[2].pixels[xy] = <<255, 255, 255>>

\* ------------------------------------------------------------------------
\* Specifications
\* ------------------------------------------------------------------------
InitNodeIds == NodeIdsInit /\ FilteredIdle /\ OpenIdle /\ BatchIdle /\ GrpcIdle /\ S2Idle
    /\ XrayIdle /\ ParentIdle /\ SharedIdle

SpecNodeIds == InitNodeIds /\ [][NodeIdsIterator_next]_vars

\* the caller drains the iterator: it calls next again as long as a call can
\* still change anything (a `for` loop or a collect over the iterator)
SpecNodeIdsDrained ==
    InitNodeIds /\ [][NodeIdsIterator_next]_vars /\ WF_vars(NodeIdsIterator_next)

InitFiltered == NodeIdsIdle /\ FilteredInit /\ OpenIdle /\ BatchIdle /\ GrpcIdle /\ S2Idle
    /\ XrayIdle /\ ParentIdle /\ SharedIdle

SpecFiltered == InitFiltered /\ [][FilteredPointsIterator_next]_vars

InitOpen == NodeIdsIdle /\ FilteredIdle /\ OpenInit /\ BatchIdle /\ GrpcIdle /\ S2Idle
    /\ XrayIdle /\ ParentIdle /\ SharedIdle

SpecOpen == InitOpen /\ [][FilteredPointsIterator_new]_vars

InitBatch == NodeIdsIdle /\ FilteredIdle /\ OpenIdle /\ BatchInit /\ GrpcIdle /\ S2Idle
    /\ XrayIdle /\ ParentIdle /\ SharedIdle

BatchNext ==
    \/ try_for_each_batch_begin
    \/ push_point_and_callback
    \/ try_for_each_batch_end

SpecBatch == InitBatch /\ [][BatchNext]_vars

InitLocation == NodeIdsIdle /\ FilteredIdle /\ OpenIdle /\ LocationInit /\ GrpcIdle /\ S2Idle
    /\ XrayIdle /\ ParentIdle /\ SharedIdle

SpecLocation == InitLocation /\ [][BatchNext]_vars

InitGrpc == NodeIdsIdle /\ FilteredIdle /\ OpenIdle /\ BatchIdle /\ GrpcInit /\ S2Idle
    /\ XrayIdle /\ ParentIdle /\ SharedIdle

GrpcNext ==
    \/ get_points_in_box_begin
    \/ for_each_reply
    \/ for_each_end

SpecGrpc == InitGrpc /\ [][GrpcNext]_vars

InitS2 == NodeIdsIdle /\ FilteredIdle /\ OpenIdle /\ BatchIdle /\ GrpcIdle /\ S2Init
    /\ XrayIdle /\ ParentIdle /\ SharedIdle

\* sessions over several cells
S2Next ==
    \/ \E ps \in SeqsUpTo(SplitPositions, MaxSessionPoints - supplied) : S2Splitter_write(ps)
    \/ S2Splitter_drop

SpecS2 == InitS2 /\ [][S2Next]_vars

\* sessions over one cell, with radii on and around the bounds of the band
S2BandNext ==
    \/ \E ps \in SeqsUpTo(BandPositions, MaxSessionPoints - supplied) : S2Splitter_write(ps)
    \/ S2Splitter_drop

SpecS2Band == InitS2 /\ [][S2BandNext]_vars

InitXray == NodeIdsIdle /\ FilteredIdle /\ OpenIdle /\ BatchIdle /\ GrpcIdle /\ S2Idle
    /\ XrayInit /\ ParentIdle /\ SharedIdle

XrayNext ==
    \/ xray_for_each_point
    \/ xray_from_points_end

SpecXray == InitXray /\ [][XrayNext]_vars

InitParent == NodeIdsIdle /\ FilteredIdle /\ OpenIdle /\ BatchIdle /\ GrpcIdle /\ S2Idle
    /\ XrayIdle /\ ParentInit /\ SharedIdle

SpecParent == InitParent /\ [][build_parent_call]_vars

InitShared == SharedIndexInit /\ FilteredIdle /\ OpenIdle /\ BatchIdle /\ GrpcIdle /\ S2Idle
    /\ XrayIdle /\ ParentIdle /\ SharedInit

\* the handlers run in any interleaving
SharedNext == \E i \in Iterations : Shared_next(i)

SpecShared == InitShared /\ [][SharedNext]_vars

====
